---- MODULE Spec2Model ----
(***************************************************************************)
(* Model of package basic (go-basic): Run = lexer -> recursive-descent     *)
(* parser -> tree evaluator over int32 / float64 results.                  *)
(*                                                                         *)
(* Source text is a sequence of bytes (integers 0..255), exactly as the Go *)
(* string is indexed by the lexer.  int32 values are TLA+ integers in      *)
(* -2^31 .. 2^31-1 and every int32 operation wraps modulo 2^32.  float64   *)
(* values are tracked exactly as m * 2^e (m odd) while the mantissa fits   *)
(* the integers of the checker; anything else is the value Untracked.      *)
(***************************************************************************)
EXTENDS Integers, Sequences, FiniteSets, TLC

(* ------------------------------------------------------------------ *)
(* Bytes the lexer compares against                                   *)
(* ------------------------------------------------------------------ *)
ChNul == 0
ChTab == 9
ChNewline == 10
ChSpace == 32
ChLParen == 40
ChRParen == 41
ChStar == 42
ChPlus == 43
ChMinus == 45
ChDot == 46
ChSlash == 47
ChZero == 48
ChNine == 57

isDigit(c) == c >= ChZero /\ c <= ChNine

(* ------------------------------------------------------------------ *)
(* int32: two's complement, wrapping arithmetic                       *)
(* ------------------------------------------------------------------ *)
MaxInt32 == 2147483647
MinInt32 == -2147483647 - 1

\* the four bytes of the two's complement representation, least significant first
bytesOf(a) ==
    << a % 256, (a \div 256) % 256, (a \div 65536) % 256, (a \div 16777216) % 256 >>

\* the int32 whose representation is the four bytes b[1..4]
fromBytes(b) ==
    (IF b[4] >= 128 THEN b[4] - 256 ELSE b[4]) * 16777216
        + b[3] * 65536 + b[2] * 256 + b[1]

\* left + right on int32 (wraps)
add32(left, right) ==
    LET x == bytesOf(left)
        y == bytesOf(right)
        t1 == x[1] + y[1]
        t2 == x[2] + y[2] + (t1 \div 256)
        t3 == x[3] + y[3] + (t2 \div 256)
        t4 == x[4] + y[4] + (t3 \div 256)
    IN  fromBytes(<< t1 % 256, t2 % 256, t3 % 256, t4 % 256 >>)

\* left * right on int32 (wraps)
mul32(left, right) ==
    LET x == bytesOf(left)
        y == bytesOf(right)
        t1 == x[1] * y[1]
        t2 == x[1] * y[2] + x[2] * y[1] + (t1 \div 256)
        t3 == x[1] * y[3] + x[2] * y[2] + x[3] * y[1] + (t2 \div 256)
        t4 == x[1] * y[4] + x[2] * y[3] + x[3] * y[2] + x[4] * y[1] + (t3 \div 256)
    IN  fromBytes(<< t1 % 256, t2 % 256, t3 % 256, t4 % 256 >>)

\* left - right on int32 (wraps)
sub32(left, right) == add32(left, mul32(right, -1))

\* left / right on int32 for right # 0, rounding toward minus infinity when
\* the divisor is positive (floor division, which is not Go's / on integers)
quo32Floor(left, right) ==
    IF right = MinInt32 THEN (IF left = MinInt32 THEN 1 ELSE 0)
    ELSE IF left = MinInt32 /\ right = -1 THEN MinInt32
    ELSE LET d == IF right > 0 THEN right ELSE 0 - right
             f == left \div d
         IN  IF right > 0 THEN f ELSE 0 - f

\* left / right on int32 for right # 0: the quotient truncated toward zero;
\* MinInt32 / -1 is MinInt32 (two's complement overflow, no trap)
quo32(left, right) ==
    IF right = MinInt32 THEN (IF left = MinInt32 THEN 1 ELSE 0)
    ELSE IF left = MinInt32 /\ right = -1 THEN MinInt32
    ELSE LET d == IF right > 0 THEN right ELSE 0 - right
             f == left \div d
             t == IF left < 0 /\ left % d # 0 THEN f + 1 ELSE f
         IN  IF right > 0 THEN t ELSE 0 - t

(* ------------------------------------------------------------------ *)
(* float64                                                            *)
(*   [k |-> "fin", m, e]   the finite value m * 2^e, m odd or m = e = 0 *)
(*                         (the sign of zero is not kept: Go's == does *)
(*                         not see it)                                 *)
(*   [k |-> "inf"]         +Inf or -Inf                                *)
(*   [k |-> "nan"]         NaN                                         *)
(*   [k |-> "untracked"]   some float64 the model does not follow: a   *)
(*                         rounded result, a mantissa above MaxInt32,  *)
(*                         arithmetic on an infinity                   *)
(* Every "fin" value has |m| < 2^31 < 2^53, so it is a float64 and any *)
(* IEEE operation whose exact result is "fin" returns exactly it.      *)
(* ------------------------------------------------------------------ *)
FZero == [k |-> "fin", m |-> 0, e |-> 0]
FInf == [k |-> "inf", m |-> 0, e |-> 0]
FNaN == [k |-> "nan", m |-> 0, e |-> 0]
Untracked == [k |-> "untracked", m |-> 0, e |-> 0]

RECURSIVE fnorm(_, _)
\* m * 2^e with the factors of two moved from m to e
fnorm(m, e) ==
    IF m = 0 THEN FZero
    ELSE IF m % 2 = 0 THEN fnorm(m \div 2, e + 1)
    ELSE [k |-> "fin", m |-> m, e |-> e]

absInt(i) == IF i < 0 THEN 0 - i ELSE i

\* 2^n for 0 <= n <= 30
pow2(n) == 2 ^ n

\* float64(i) for an int32 i: exact
float64(i) == fnorm(i, 0)

\* -1 * f
fneg(f) == IF f.k = "fin" THEN [f EXCEPT !.m = 0 - f.m] ELSE f

\* math.Abs(f)
fabs(f) ==
    IF f.k = "fin" THEN [f EXCEPT !.m = absInt(f.m)]
    ELSE IF f.k = "nan" THEN FNaN
    ELSE f

\* whether m * 2^k fits the integers of the model
shiftFits(m, k) == m = 0 \/ (k <= 30 /\ absInt(m) <= MaxInt32 \div pow2(k))

fadd(l, r) ==
    IF l.k = "nan" \/ r.k = "nan" THEN FNaN
    ELSE IF l.k # "fin" \/ r.k # "fin" THEN Untracked
    ELSE IF l.m = 0 THEN r
    ELSE IF r.m = 0 THEN l
    ELSE LET lo == IF l.e < r.e THEN l.e ELSE r.e
         IN  IF ~shiftFits(l.m, l.e - lo) \/ ~shiftFits(r.m, r.e - lo) THEN Untracked
             ELSE LET a == l.m * pow2(l.e - lo)
                      b == r.m * pow2(r.e - lo)
                  IN  IF (a > 0 /\ b > MaxInt32 - a) \/ (a < 0 /\ b < (0 - MaxInt32) - a)
                      THEN Untracked
                      ELSE fnorm(a + b, lo)

fsub(l, r) == fadd(l, fneg(r))

fmul(l, r) ==
    IF l.k = "nan" \/ r.k = "nan" THEN FNaN
    ELSE IF l.k # "fin" \/ r.k # "fin" THEN Untracked
    ELSE IF l.m = 0 \/ r.m = 0 THEN FZero
    ELSE IF absInt(l.m) > MaxInt32 \div absInt(r.m) THEN Untracked
    ELSE fnorm(l.m * r.m, l.e + r.e)

fdiv(l, r) ==
    IF l.k = "nan" \/ r.k = "nan" THEN FNaN
    ELSE IF r.k = "fin" /\ r.m = 0
         THEN (IF l.k = "fin" /\ l.m = 0 THEN FNaN
               ELSE IF l.k = "untracked" THEN Untracked
               ELSE FInf)
    ELSE IF l.k # "fin" \/ r.k # "fin" THEN Untracked
    ELSE IF l.m % absInt(r.m) # 0 THEN Untracked
    ELSE fnorm((IF r.m < 0 THEN 0 - l.m ELSE l.m) \div absInt(r.m), l.e - r.e)

(* ------------------------------------------------------------------ *)
(* Positions, tokens, nodes, results, errors                          *)
(* filename and fileText of position_t are set once by newPosition and *)
(* never change; they are left out of the record.                      *)
(* ------------------------------------------------------------------ *)
newPosition == [index |-> -1, line |-> 0, col |-> -1]

\* position_t.advance
posAdvance(p, current) ==
    IF current = ChNewline
    THEN [index |-> p.index + 1, line |-> p.line + 1, col |-> 0]
    ELSE [index |-> p.index + 1, line |-> p.line, col |-> p.col + 1]

\* position_t.copy: a new value with the same fields
posCopy(source) == [index |-> source.index, line |-> source.line, col |-> source.col]

\* the zero value of position_t and of token_t
zeroPos == [index |-> 0, line |-> 0, col |-> 0]
zeroToken == [tokenType |-> "INT", intVal |-> 0, floatVal |-> FZero, pos |-> zeroPos]

\* token_t{tokenType: tt, pos: p}
opToken(tt, p) == [tokenType |-> tt, intVal |-> 0, floatVal |-> FZero, pos |-> p]

NilNode == [nodeType |-> "nil"]
NilRes == [ResultType |-> "nil", Ires |-> 0, Fres |-> FZero]
NilErr == [kind |-> "nil", char |-> 0, pos |-> zeroPos]

\* fmt.Errorf(msg + " at %s", p); char is the %c argument of the lexer's message
mkErr(kind, char, p) == [kind |-> kind, char |-> char, pos |-> p]

(* ------------------------------------------------------------------ *)
(* Lexer                                                              *)
(* ------------------------------------------------------------------ *)
\* lexer_t.advance
lexerAdvance(txt, p, cur) ==
    LET np == posAdvance(p, cur)
    IN  [pos |-> np,
         currentChar |-> IF np.index < Len(txt) THEN txt[np.index + 1] ELSE ChNul]

\* newLexer: currentChar 0, then one advance
newLexer(txt) == lexerAdvance(txt, newPosition, ChNul)

\* n*10 + d on a uint64 n held as four 16-bit limbs, least significant first;
\* the last limb of the result is above 65535 when the uint64 overflows
timesTenPlus(n, d) ==
    LET t1 == n[1] * 10 + d
        t2 == n[2] * 10 + (t1 \div 65536)
        t3 == n[3] * 10 + (t2 \div 65536)
        t4 == n[4] * 10 + (t3 \div 65536)
    IN  << t1 % 65536, t2 % 65536, t3 % 65536, t4 >>

RECURSIVE parseUint(_, _)
\* strconv.ParseUint on decimal digits: the uint64 as limbs, or <<>> out of range
parseUint(n, ds) ==
    IF Len(ds) = 0 THEN n
    ELSE LET t == timesTenPlus(n, Head(ds) - ChZero)
         IN  IF t[4] > 65535 THEN <<>> ELSE parseUint(t, Tail(ds))

\* i, _ := strconv.Atoi(numStr); int32(i), on a 64-bit int.  Out of the int64
\* range Atoi returns math.MaxInt64 (and an error that is dropped): int32 of
\* it is -1.  In range, int32(i) keeps the low 32 bits.
atoi32(numStr) ==
    LET u == parseUint(<<0, 0, 0, 0>>, numStr)
    IN  IF u = <<>> THEN -1
        ELSE IF u[4] >= 32768 THEN -1
        ELSE (IF u[2] >= 32768 THEN u[2] - 65536 ELSE u[2]) * 65536 + u[1]

RECURSIVE digitsValue(_, _)
\* acc * 10^Len(ds) + the number written by ds, or -1 when above MaxInt32
digitsValue(acc, ds) ==
    IF acc < 0 THEN -1
    ELSE IF Len(ds) = 0 THEN acc
    ELSE IF acc > (MaxInt32 - (Head(ds) - ChZero)) \div 10 THEN -1
    ELSE digitsValue(acc * 10 + (Head(ds) - ChZero), Tail(ds))

RECURSIVE divFives(_, _)
\* n / 5^f when that is an integer, else -1 (n >= 0)
divFives(n, f) ==
    IF f = 0 THEN n
    ELSE IF n % 5 # 0 THEN -1
    ELSE divFives(n \div 5, f - 1)

\* f, _ := strconv.ParseFloat(numStr, 64) for digits with exactly one '.':
\* the digits as an integer n over 10^(digits after the dot)
parseFloat(numStr) ==
    LET dot == CHOOSE i \in 1..Len(numStr) : numStr[i] = ChDot
        frac == Len(numStr) - dot
        n == digitsValue(0, SelectSeq(numStr, isDigit))
    IN  IF n < 0 THEN Untracked
        ELSE IF n = 0 THEN FZero
        ELSE LET q == divFives(n, frac)
             IN  IF q < 0 THEN Untracked ELSE fnorm(q, 0 - frac)

RECURSIVE numberLoop(_, _, _, _, _)
\* the for loop of makeNumber
numberLoop(txt, p, cur, numStr, decimalPoints) ==
    IF cur # ChDot /\ ~isDigit(cur)
    THEN [numStr |-> numStr, decimalPoints |-> decimalPoints, pos |-> p, currentChar |-> cur]
    ELSE IF cur = ChDot /\ decimalPoints = 1
    THEN [numStr |-> numStr, decimalPoints |-> decimalPoints, pos |-> p, currentChar |-> cur]
    ELSE LET a == lexerAdvance(txt, p, cur)
         IN  numberLoop(txt, a.pos, a.currentChar, Append(numStr, cur),
                        IF cur = ChDot THEN decimalPoints + 1 ELSE decimalPoints)

\* makeNumber with the position taken after the loop instead of before it
makeNumberPosAfter(txt, p, cur) ==
    LET l == numberLoop(txt, p, cur, <<>>, 0)
        tok == IF l.decimalPoints = 0
               THEN [tokenType |-> "INT", intVal |-> atoi32(l.numStr),
                     floatVal |-> FZero, pos |-> posCopy(l.pos)]
               ELSE [tokenType |-> "FLOAT", intVal |-> 0,
                     floatVal |-> parseFloat(l.numStr), pos |-> posCopy(l.pos)]
    IN  [tok |-> tok, pos |-> l.pos, currentChar |-> l.currentChar]

\* lexer_t.makeNumber: the token, and the lexer's position and current char after it
makeNumber(txt, p, cur) ==
    LET start == posCopy(p)
        l == numberLoop(txt, p, cur, <<>>, 0)
        tok == IF l.decimalPoints = 0
               THEN [tokenType |-> "INT", intVal |-> atoi32(l.numStr),
                     floatVal |-> FZero, pos |-> start]
               ELSE [tokenType |-> "FLOAT", intVal |-> 0,
                     floatVal |-> parseFloat(l.numStr), pos |-> start]
    IN  [tok |-> tok, pos |-> l.pos, currentChar |-> l.currentChar]

\* the token type of a single-character operator, "" for any other byte
operatorType(c) ==
    IF c = ChPlus THEN "ADD"
    ELSE IF c = ChMinus THEN "SUB"
    ELSE IF c = ChStar THEN "MUL"
    ELSE IF c = ChSlash THEN "DIV"
    ELSE IF c = ChLParen THEN "LPAREN"
    ELSE IF c = ChRParen THEN "RPAREN"
    ELSE ""

(* ------------------------------------------------------------------ *)
(* Parser.  A parser state is [idx, currentToken]; factor, term and   *)
(* expression return the node, the error and the parser state after.  *)
(* ------------------------------------------------------------------ *)
\* node_t{nodeType: FACTOR, tok: tok}
factorNode(tok) == [nodeType |-> "FACTOR", left |-> NilNode, tok |-> tok, right |-> NilNode]

\* node_t{nodeType: UNARY_OP, tok: op, left: factor}
unaryNode(op, child) == [nodeType |-> "UNARY_OP", left |-> child, tok |-> op, right |-> NilNode]

\* a binary node with its operands exchanged
binaryNodeSwapped(left, operator, right) ==
    [nodeType |-> "TERM", left |-> right, tok |-> operator, right |-> left]

\* node_t{nodeType: TERM, left: left, tok: operator, right: right}
binaryNode(left, operator, right) ==
    [nodeType |-> "TERM", left |-> left, tok |-> operator, right |-> right]

\* node_t{nodeType: NODE_ERR}
errNode == [nodeType |-> "NODE_ERR", left |-> NilNode, tok |-> zeroToken, right |-> NilNode]

\* parser_t.advance
parserAdvance(toks, p) ==
    [idx |-> p.idx + 1,
     currentToken |-> IF p.idx + 1 < Len(toks) THEN toks[p.idx + 2] ELSE p.currentToken]

\* newParser: idx -1, the zero token, then one advance
newParser(toks) == parserAdvance(toks, [idx |-> -1, currentToken |-> zeroToken])

\* what factor, term, expression and parse return, with the parser state p after
parseReturn(node, err, p) == [node |-> node, err |-> err, p |-> p]

\* a term loop that also folds ADD and SUB
isTermOperatorAny(tt) == tt \in {"MUL", "DIV", "ADD", "SUB"}

\* the operators the loop of term folds
isTermOperator(tt) == ~(tt # "MUL" /\ tt # "DIV")

\* the operators the loop of expression folds
isExpressionOperator(tt) == ~(tt # "ADD" /\ tt # "SUB")

\* factor, unary case, after the recursive call returned f
unaryReturn(op, f) ==
    IF f.err # NilErr
    THEN parseReturn(NilNode, f.err, f.p)
    ELSE parseReturn(unaryNode(op, f.node), NilErr, f.p)

\* factor, parenthesis case, after the call of expression returned e
parenReturn(toks, e) ==
    IF e.err # NilErr
    THEN parseReturn(NilNode, e.err, e.p)
    ELSE IF e.p.currentToken.tokenType = "RPAREN"
    THEN parseReturn(e.node, NilErr, parserAdvance(toks, e.p))
    ELSE parseReturn(errNode, mkErr("expected ')'", 0, e.p.currentToken.pos), e.p)

\* one turn of the loop of term or expression, after the right operand came back as r
foldReturn(left, operator, r) ==
    IF r.err # NilErr
    THEN parseReturn(NilNode, r.err, r.p)
    ELSE parseReturn(binaryNode(left, operator, r.node), NilErr, r.p)

RECURSIVE factor(_, _)
RECURSIVE termLoop(_, _)
RECURSIVE expressionLoop(_, _)
RECURSIVE expression(_, _)

\* parser_t.factor
factor(toks, p) ==
    IF p.currentToken.tokenType = "ADD" \/ p.currentToken.tokenType = "SUB"
    THEN unaryReturn(p.currentToken, factor(toks, parserAdvance(toks, p)))
    ELSE IF p.currentToken.tokenType = "LPAREN"
    THEN parenReturn(toks, expression(toks, parserAdvance(toks, p)))
    ELSE IF p.currentToken.tokenType = "INT" \/ p.currentToken.tokenType = "FLOAT"
    THEN parseReturn(factorNode(p.currentToken), NilErr, parserAdvance(toks, p))
    ELSE parseReturn(errNode, mkErr("expected factor", 0, p.currentToken.pos), p)

\* parser_t.term from the return of its first call of factor: l is (left, err)
\* and the parser state; each turn of the loop folds one more factor into left
termLoop(toks, l) ==
    IF l.err # NilErr THEN parseReturn(NilNode, l.err, l.p)
    ELSE IF ~isTermOperator(l.p.currentToken.tokenType) THEN l
    ELSE termLoop(toks, foldReturn(l.node, l.p.currentToken,
                                   factor(toks, parserAdvance(toks, l.p))))

\* parser_t.term
term(toks, p) == termLoop(toks, factor(toks, p))

\* parser_t.expression from the return of its first call of term
expressionLoop(toks, l) ==
    IF l.err # NilErr THEN parseReturn(NilNode, l.err, l.p)
    ELSE IF ~isExpressionOperator(l.p.currentToken.tokenType) THEN l
    ELSE expressionLoop(toks, foldReturn(l.node, l.p.currentToken,
                                         term(toks, parserAdvance(toks, l.p))))

\* parser_t.expression
expression(toks, p) == expressionLoop(toks, term(toks, p))

\* parse, after the call of expression returned e
parseCheck(e) ==
    IF e.err = NilErr /\ e.p.currentToken.tokenType # "EOF"
    THEN parseReturn(e.node, mkErr("exprected operator", 0, e.p.currentToken.pos), e.p)
    ELSE e

\* parse with the error of expression dropped: whatever node came back is a success
dropErr(e) == parseReturn(e.node, NilErr, e.p)
parseDropErr(toks, p) == dropErr(expression(toks, p))

\* parser_t.parse
parse(toks, p) == parseCheck(expression(toks, p))

(* ------------------------------------------------------------------ *)
(* Evaluator.  evaluate returns [res, err, panic]: panic is a run-time *)
(* panic of the Go program (integer division by zero, nil             *)
(* dereference), which unwinds Run without a return value.             *)
(* ------------------------------------------------------------------ *)
\* abs
abs(num) == IF num < 0 THEN mul32(-1, num) ELSE num

\* intop panics ("integer divide by zero") exactly here
intopPanics(left, right, op) == op = "DIV" /\ right = 0

\* intop, where it returns
intop(left, right, op) ==
    IF op = "ADD" THEN add32(left, right)
    ELSE IF op = "SUB" THEN sub32(left, right)
    ELSE IF op = "MUL" THEN mul32(left, right)
    ELSE IF op = "DIV" THEN quo32(left, right)
    ELSE 0

\* floatop
floatop(left, right, op) ==
    IF op = "ADD" THEN fadd(left, right)
    ELSE IF op = "SUB" THEN fsub(left, right)
    ELSE IF op = "MUL" THEN fmul(left, right)
    ELSE IF op = "DIV" THEN fdiv(left, right)
    ELSE FZero

\* &Result_t{ResultType: INTEGER, Ires: i, Fres: f}
integerResult(i, f) == [ResultType |-> "INTEGER", Ires |-> i, Fres |-> f]

\* &Result_t{ResultType: FLOATING, Fres: f}
floatingResult(f) == [ResultType |-> "FLOATING", Ires |-> 0, Fres |-> f]

evalOk(r) == [res |-> r, err |-> NilErr, panic |-> FALSE]
evalErr(e) == [res |-> NilRes, err |-> e, panic |-> FALSE]
evalPanic == [res |-> NilRes, err |-> NilErr, panic |-> TRUE]

RECURSIVE evaluate(_)
\* node_t.evaluate
evaluate(node) ==
    IF node.nodeType = "nil" THEN evalPanic
    ELSE IF node.nodeType = "FACTOR"
    THEN IF node.tok.tokenType = "INT"
         THEN evalOk(integerResult(node.tok.intVal, float64(node.tok.intVal)))
         ELSE evalOk(floatingResult(node.tok.floatVal))
    ELSE IF node.nodeType = "UNARY_OP"
    THEN LET factorRes == evaluate(node.left)
         IN  IF factorRes.panic THEN evalPanic
             ELSE IF factorRes.err # NilErr THEN evalErr(factorRes.err)
             ELSE IF node.tok.tokenType = "SUB"
             THEN IF factorRes.res.ResultType = "INTEGER"
                  THEN evalOk(integerResult(mul32(-1, factorRes.res.Ires),
                                            fneg(float64(factorRes.res.Ires))))
                  ELSE evalOk(floatingResult(fneg(factorRes.res.Fres)))
             ELSE IF node.tok.tokenType = "ADD"
             THEN IF factorRes.res.ResultType = "INTEGER"
                  THEN evalOk(integerResult(abs(factorRes.res.Ires),
                                            float64(abs(factorRes.res.Ires))))
                  ELSE evalOk(floatingResult(fabs(factorRes.res.Fres)))
             ELSE evalErr(mkErr("evaluation error", 0, node.tok.pos))
    ELSE IF node.nodeType = "TERM" \/ node.nodeType = "EXPRESSION"
    THEN LET leftRes == evaluate(node.left)
         IN  IF leftRes.panic THEN evalPanic
             ELSE IF leftRes.err # NilErr THEN evalErr(leftRes.err)
             ELSE LET rightRes == evaluate(node.right)
                  IN  IF rightRes.panic THEN evalPanic
                      ELSE IF rightRes.err # NilErr THEN evalErr(rightRes.err)
                      ELSE IF leftRes.res.ResultType = "FLOATING"
                              \/ rightRes.res.ResultType = "FLOATING"
                      THEN evalOk(floatingResult(
                               floatop(leftRes.res.Fres, rightRes.res.Fres, node.tok.tokenType)))
                      ELSE IF intopPanics(leftRes.res.Ires, rightRes.res.Ires, node.tok.tokenType)
                      THEN evalPanic
                      ELSE LET i == intop(leftRes.res.Ires, rightRes.res.Ires, node.tok.tokenType)
                           IN  evalOk(integerResult(i, float64(i)))
    ELSE evalErr(mkErr("evaluation error", 0, node.tok.pos))

(* ------------------------------------------------------------------ *)
(* Inputs of Run                                                      *)
(* ------------------------------------------------------------------ *)
\* most pieces of an expression text, and most bytes of a raw text
MaxPieces == 4
MaxLexLen == 4

\* "0" "2" "7" "2147483648" "2.5"
NumberPieces ==
    { <<48>>, <<50>>, <<55>>, <<50, 49, 52, 55, 52, 56, 51, 54, 52, 56>>, <<50, 46, 53>> }

\* "+" "-" "*" "/" "(" ")"
OperatorPieces == { <<43>>, <<45>>, <<42>>, <<47>>, <<40>>, <<41>> }

ExprLexicon == NumberPieces \cup OperatorPieces

\* NUL, tab, newline, space, "$", ")", "+", ".", "1"
LexAlphabet == {0, 9, 10, 32, 36, 41, 43, 46, 49}

\* "0" "2" "3" "4" "10" "2.5"
Operands == { <<48>>, <<50>>, <<51>>, <<52>>, <<49, 48>>, <<50, 46, 53>> }

\* "+" "-" "*" "/"
BinaryOperators == { <<43>>, <<45>>, <<42>>, <<47>> }
AdditiveOperators == { <<43>>, <<45>> }
MultiplicativeOperators == { <<42>>, <<47>> }

\* nothing, or one space, around the operators
Spacings == { <<>>, <<32>> }

RECURSIVE flatten(_)
flatten(ps) == IF Len(ps) = 0 THEN <<>> ELSE Head(ps) \o flatten(Tail(ps))

\* every sequence of at most MaxPieces pieces
ExprTexts ==
    { flatten(ps) : ps \in UNION { [1..n -> ExprLexicon] : n \in 0..MaxPieces } }

\* every sequence of at most MaxLexLen bytes of LexAlphabet
LexTexts == UNION { [1..n -> LexAlphabet] : n \in 0..MaxLexLen }

\* a op1 b op2 c
ChainTexts ==
    { a \o sp \o o1 \o sp \o b \o sp \o o2 \o sp \o c :
        a \in Operands, b \in Operands, c \in Operands,
        o1 \in BinaryOperators, o2 \in BinaryOperators, sp \in Spacings }

\* (a op1 b) op2 c
ParenTexts ==
    { <<40>> \o a \o sp \o o1 \o sp \o b \o <<41>> \o sp \o o2 \o sp \o c :
        a \in Operands, b \in Operands, c \in Operands,
        o1 \in AdditiveOperators, o2 \in MultiplicativeOperators, sp \in Spacings }

(* ------------------------------------------------------------------ *)
(* Run as a state machine                                             *)
(* ------------------------------------------------------------------ *)
VARIABLES
    text,          \* txt, the argument of Run
    pos,           \* lexer.pos
    currentChar,   \* lexer.currentChar
    tokens,        \* ret of makeTokens, then tokens of Run and parser.tokens
    idx,           \* parser.idx
    currentToken,  \* parser.currentToken
    ast,           \* ret of Run: the node parse returned
    res,           \* the *Result_t Run returns
    err,           \* the error Run returns
    pc             \* "lex", "parse", "eval"; "done": Run returned (res, err);
                   \* "panic": Run was unwound by a run-time panic

vars == <<text, pos, currentChar, tokens, idx, currentToken, ast, res, err, pc>>

\* Run up to the call of makeTokens: newLexer(txt, fn)
Init ==
    /\ \/ text \in ExprTexts
       \/ text \in LexTexts
       \/ text \in ChainTexts
       \/ text \in ParenTexts
    /\ pos = newLexer(text).pos
    /\ currentChar = newLexer(text).currentChar
    /\ tokens = <<>>
    /\ idx = -1
    /\ currentToken = zeroToken
    /\ ast = NilNode
    /\ res = NilRes
    /\ err = NilErr
    /\ pc = "lex"

\* makeTokens, one turn of the loop: a space or a tab
LexSkip ==
    /\ pc = "lex"
    /\ currentChar = ChSpace \/ currentChar = ChTab
    /\ pos' = lexerAdvance(text, pos, currentChar).pos
    /\ currentChar' = lexerAdvance(text, pos, currentChar).currentChar
    /\ UNCHANGED <<text, tokens, idx, currentToken, ast, res, err, pc>>

\* makeTokens, one turn of the loop: a digit
LexNumber ==
    /\ pc = "lex"
    /\ isDigit(currentChar)
    /\ LET n == makeNumber(text, pos, currentChar)
       IN  /\ tokens' = Append(tokens, n.tok)
           /\ pos' = n.pos
           /\ currentChar' = n.currentChar
    /\ UNCHANGED <<text, idx, currentToken, ast, res, err, pc>>

\* makeTokens, one turn of the loop: one of + - * / ( )
LexOperator ==
    /\ pc = "lex"
    /\ operatorType(currentChar) # ""
    /\ tokens' = Append(tokens, opToken(operatorType(currentChar), posCopy(pos)))
    /\ pos' = lexerAdvance(text, pos, currentChar).pos
    /\ currentChar' = lexerAdvance(text, pos, currentChar).currentChar
    /\ UNCHANGED <<text, idx, currentToken, ast, res, err, pc>>

\* makeTokens, the else branch: advance, then fail; Run returns (nil, err)
LexIllegal ==
    /\ pc = "lex"
    /\ currentChar # ChNul
    /\ currentChar # ChSpace /\ currentChar # ChTab
    /\ ~isDigit(currentChar)
    /\ operatorType(currentChar) = ""
    /\ pos' = lexerAdvance(text, pos, currentChar).pos
    /\ currentChar' = lexerAdvance(text, pos, currentChar).currentChar
    /\ tokens' = <<>>
    /\ err' = mkErr("illegal character", currentChar, pos')
    /\ pc' = "done"
    /\ UNCHANGED <<text, idx, currentToken, ast, res>>

\* makeTokens, currentChar == 0: leave the loop, append EOF, return the tokens
LexEnd ==
    /\ pc = "lex"
    /\ currentChar = ChNul
    /\ tokens' = Append(tokens, opToken("EOF", posCopy(pos)))
    /\ pc' = "parse"
    /\ UNCHANGED <<text, pos, currentChar, idx, currentToken, ast, res, err>>

\* Run: newParser(tokens), parser.parse(), and the return on its error
Parse ==
    /\ pc = "parse"
    /\ LET r == parse(tokens, newParser(tokens))
       IN  /\ idx' = r.p.idx
           /\ currentToken' = r.p.currentToken
           /\ ast' = r.node
           /\ err' = r.err
           /\ pc' = IF r.err # NilErr THEN "done" ELSE "eval"
    /\ UNCHANGED <<text, pos, currentChar, tokens, res>>

\* Run: ret.evaluate() and the return
Evaluate ==
    /\ pc = "eval"
    /\ LET v == evaluate(ast)
       IN  /\ res' = v.res
           /\ err' = v.err
           /\ pc' = IF v.panic THEN "panic" ELSE "done"
    /\ UNCHANGED <<text, pos, currentChar, tokens, idx, currentToken, ast>>

Next ==
    \/ LexSkip
    \/ LexNumber
    \/ LexOperator
    \/ LexIllegal
    \/ LexEnd
    \/ Parse
    \/ Evaluate

Spec == Init /\ [][Next]_vars

(* ------------------------------------------------------------------ *)
(* Vocabulary of the properties                                       *)
(* ------------------------------------------------------------------ *)
\* Run returned / Run was unwound by a panic
Returned == pc = "done"
Panicked == pc = "panic"

\* makeTokens returned its tokens without error
LexSucceeded == pc \in {"parse", "eval", "panic"} \/ (pc = "done" /\ tokens # <<>>)

\* parse returned ast without error
ParseSucceeded == pc \in {"eval", "panic"} \/ (pc = "done" /\ res # NilRes)

\* parse returned ast without error and evaluate has run on it
Evaluated == Panicked \/ (Returned /\ res # NilRes)

RECURSIVE subtrees(_)
\* the nodes reachable from n
subtrees(n) ==
    IF n.nodeType = "nil" THEN {}
    ELSE {n} \cup subtrees(n.left) \cup subtrees(n.right)

IsBinary(n) == n.nodeType \in {"TERM", "EXPRESSION"}
IsOperand(t) == t.tokenType \in {"INT", "FLOAT"}
EvalOk(v) == ~v.panic /\ v.err = NilErr

\* the trees the properties expect, written out field by field
Leaf(t) == [nodeType |-> "FACTOR", left |-> NilNode, tok |-> t, right |-> NilNode]
Bin(l, op, r) == [nodeType |-> "TERM", left |-> l, tok |-> op, right |-> r]

\* the quotient of l by d # 0 rounded toward zero, by sign and magnitude; for an
\* int32 dividend and divisor, kept in int32 (2^31 wraps to MinInt32)
TruncQuot(l, d) ==
    IF d = MinInt32 THEN (IF l = MinInt32 THEN 1 ELSE 0)
    ELSE IF l = MinInt32
    THEN IF absInt(d) = 1 THEN MinInt32
         ELSE LET mag == (MaxInt32 \div absInt(d))
                             + (IF MaxInt32 % absInt(d) = absInt(d) - 1 THEN 1 ELSE 0)
              IN  IF d < 0 THEN mag ELSE 0 - mag
    ELSE IF (l < 0) = (d < 0) THEN absInt(l) \div absInt(d)
    ELSE 0 - (absInt(l) \div absInt(d))

\* integers small enough that two of + - * on them stay inside int32
Small(i) == i >= -1000 /\ i <= 1000

\* a plain integer, or the failure of a division by zero
Plain(n) == [ok |-> TRUE, v |-> n]
DivByZero == [ok |-> FALSE, v |-> 0]

\* l op r over the integers, for small operands
PlainOp(l, op, r) ==
    IF ~l.ok \/ ~r.ok THEN DivByZero
    ELSE IF op = "ADD" THEN Plain(l.v + r.v)
    ELSE IF op = "SUB" THEN Plain(l.v - r.v)
    ELSE IF op = "MUL" THEN Plain(l.v * r.v)
    ELSE IF r.v = 0 THEN DivByZero
    ELSE Plain(TruncQuot(l.v, r.v))

\* Run ended with e: it returned the Integer e.v, or it panicked on a division by zero
EndsWith(e) ==
    IF ~e.ok THEN Panicked
    ELSE Returned /\ err = NilErr /\ res.ResultType = "INTEGER" /\ res.Ires = e.v

(* ------------------------------------------------------------------ *)
(* C1 .. C4                                                           *)
(* ------------------------------------------------------------------ *)
\* C1: Run always returns, and returns exactly one of a Result and an error:
\* it is never unwound by a panic, and when it has returned exactly one of res
\* and err is non-nil.
C1_OneResultOrOneError ==
    /\ ~Panicked
    /\ Returned => ((res # NilRes) # (err # NilErr))

\* C2: every Integer Result evaluate produces, at any node of a parsed tree,
\* has Fres = float64(Ires).
C2_FloatMirrorsInteger ==
    /\ Evaluated =>
          \A n \in subtrees(ast) :
              LET v == evaluate(n)
              IN  (EvalOk(v) /\ v.res.ResultType = "INTEGER")
                      => v.res.Fres = float64(v.res.Ires)
    /\ (Returned /\ res.ResultType = "INTEGER") => res.Fres = float64(res.Ires)

\* the node shapes evaluate handles without its defensive branch
WellFormedNode(n) ==
    \/ /\ n.nodeType = "FACTOR"
       /\ n.tok.tokenType \in {"INT", "FLOAT"}
    \/ /\ n.nodeType = "UNARY_OP"
       /\ n.tok.tokenType \in {"ADD", "SUB"}
       /\ n.left # NilNode
    \/ /\ IsBinary(n)
       /\ n.tok.tokenType \in {"ADD", "SUB", "MUL", "DIV"}
       /\ n.left # NilNode
       /\ n.right # NilNode

\* C3: a tree parse returns without error is non-nil and made only of
\* well-formed FACTOR, UNARY_OP and binary nodes (no NODE_ERR), and Run never
\* returns the "evaluation error" of evaluate.
C3_ParsedTreeEvaluates ==
    /\ pc = "eval" =>
          /\ ast # NilNode
          /\ \A n \in subtrees(ast) : WellFormedNode(n)
          /\ evaluate(ast).err = NilErr
    /\ Returned => err.kind # "evaluation error"

\* a parsed tree with a unary and a binary node was evaluated to a Result
C3_Witness ==
    /\ Returned
    /\ res # NilRes
    /\ ast.nodeType = "TERM"
    /\ ast.left.nodeType = "UNARY_OP"
    /\ ast.right.nodeType = "FACTOR"

\* the bytes that may start a token or be skipped
LegalStart(c) ==
    c = ChNul \/ c = ChSpace \/ c = ChTab \/ isDigit(c) \/ operatorType(c) # ""

\* C4: a lex error names the illegal character and reports that character's
\* own column: the byte at the reported (0-based) column is the character named.
C4_LexErrorAtCharacter ==
    (Returned /\ err.kind = "illegal character") =>
        /\ ~LegalStart(err.char)
        /\ err.pos.col >= 0
        /\ err.pos.col < Len(text)
        /\ text[err.pos.col + 1] = err.char

(* ------------------------------------------------------------------ *)
(* C5 .. C8                                                           *)
(* ------------------------------------------------------------------ *)
SameLevel(o1, o2) ==
    \/ o1 \in {"ADD", "SUB"} /\ o2 \in {"ADD", "SUB"}
    \/ o1 \in {"MUL", "DIV"} /\ o2 \in {"MUL", "DIV"}

\* the tokens are: a op1 b op2 c EOF
ChainTokens ==
    /\ LexSucceeded
    /\ Len(tokens) = 6
    /\ IsOperand(tokens[1]) /\ IsOperand(tokens[3]) /\ IsOperand(tokens[5])
    /\ tokens[2].tokenType \in {"ADD", "SUB", "MUL", "DIV"}
    /\ tokens[4].tokenType \in {"ADD", "SUB", "MUL", "DIV"}

\* the tokens are: ( a op1 b ) op2 c EOF
ParenTokens ==
    /\ LexSucceeded
    /\ Len(tokens) = 8
    /\ tokens[1].tokenType = "LPAREN" /\ tokens[5].tokenType = "RPAREN"
    /\ IsOperand(tokens[2]) /\ IsOperand(tokens[4]) /\ IsOperand(tokens[7])
    /\ tokens[3].tokenType \in {"ADD", "SUB"}
    /\ tokens[6].tokenType \in {"MUL", "DIV"}

SmallInt(t) == t.tokenType = "INT" /\ Small(t.intVal)

\* C5: with op1 and op2 of the same level, "a op1 b op2 c" parses to
\* ((a op1 b) op2 c) and Run ends as evaluating that tree ends; on small
\* integers the value is (a op1 b) op2 c over the integers.
C5_LeftAssociative ==
    (ChainTokens /\ SameLevel(tokens[2].tokenType, tokens[4].tokenType)) =>
        LET tree == Bin(Bin(Leaf(tokens[1]), tokens[2], Leaf(tokens[3])),
                        tokens[4], Leaf(tokens[5]))
        IN  /\ pc # "parse" => (ParseSucceeded /\ ast = tree)
            /\ Returned => (res = evaluate(tree).res /\ err = NilErr)
            /\ Panicked => evaluate(tree).panic
            /\ (pc \in {"done", "panic"}
                    /\ SmallInt(tokens[1]) /\ SmallInt(tokens[3]) /\ SmallInt(tokens[5]))
                => EndsWith(PlainOp(PlainOp(Plain(tokens[1].intVal), tokens[2].tokenType,
                                            Plain(tokens[3].intVal)),
                                    tokens[4].tokenType, Plain(tokens[5].intVal)))

\* "10 - 3 - 2" (with or without the spaces) returned the Integer 5
C5_Witness ==
    /\ Returned
    /\ ChainTokens
    /\ tokens[1].intVal = 10 /\ tokens[3].intVal = 3 /\ tokens[5].intVal = 2
    /\ tokens[1].tokenType = "INT" /\ tokens[3].tokenType = "INT" /\ tokens[5].tokenType = "INT"
    /\ tokens[2].tokenType = "SUB" /\ tokens[4].tokenType = "SUB"
    /\ res.ResultType = "INTEGER" /\ res.Ires = 5

\* C6: "a + b * c" (and - for +, / for *) parses to a + (b * c), and
\* "(a + b) * c" parses to (a + b) * c; on small integer literals Run ends
\* with those values.
C6_Precedence ==
    /\ (ChainTokens /\ tokens[2].tokenType \in {"ADD", "SUB"}
                    /\ tokens[4].tokenType \in {"MUL", "DIV"}) =>
          /\ pc # "parse" =>
                /\ ParseSucceeded
                /\ ast = Bin(Leaf(tokens[1]), tokens[2],
                             Bin(Leaf(tokens[3]), tokens[4], Leaf(tokens[5])))
          /\ (pc \in {"done", "panic"}
                  /\ SmallInt(tokens[1]) /\ SmallInt(tokens[3]) /\ SmallInt(tokens[5]))
              => EndsWith(PlainOp(Plain(tokens[1].intVal), tokens[2].tokenType,
                                  PlainOp(Plain(tokens[3].intVal), tokens[4].tokenType,
                                          Plain(tokens[5].intVal))))
    /\ ParenTokens =>
          /\ pc # "parse" =>
                /\ ParseSucceeded
                /\ ast = Bin(Bin(Leaf(tokens[2]), tokens[3], Leaf(tokens[4])),
                             tokens[6], Leaf(tokens[7]))
          /\ (pc \in {"done", "panic"}
                  /\ SmallInt(tokens[2]) /\ SmallInt(tokens[4]) /\ SmallInt(tokens[7]))
              => EndsWith(PlainOp(PlainOp(Plain(tokens[2].intVal), tokens[3].tokenType,
                                          Plain(tokens[4].intVal)),
                                  tokens[6].tokenType, Plain(tokens[7].intVal)))

\* "2 + 3 * 4" returned the Integer 14
C6_Witness ==
    /\ Returned
    /\ ChainTokens
    /\ tokens[1].tokenType = "INT" /\ tokens[3].tokenType = "INT" /\ tokens[5].tokenType = "INT"
    /\ tokens[1].intVal = 2 /\ tokens[3].intVal = 3 /\ tokens[5].intVal = 4
    /\ tokens[2].tokenType = "ADD" /\ tokens[4].tokenType = "MUL"
    /\ res.ResultType = "INTEGER" /\ res.Ires = 14

\* r is |v| / r is -v, over the integers
IsAbsOf(r, v) == r >= 0 /\ (IF v >= 0 THEN r = v ELSE v # MinInt32 /\ r = 0 - v)
IsNegationOf(r, v) == v # MinInt32 /\ r = 0 - v

\* C7: on an Integer child value v, unary ADD yields the Integer |v| (never
\* negative) and unary SUB yields the Integer -v.
C7_UnaryPlusIsAbs ==
    Evaluated =>
        \A n \in subtrees(ast) :
            (n.nodeType = "UNARY_OP" /\ EvalOk(evaluate(n.left))
                 /\ evaluate(n.left).res.ResultType = "INTEGER") =>
                LET v == evaluate(n.left).res.Ires
                    r == evaluate(n)
                IN  /\ EvalOk(r)
                    /\ r.res.ResultType = "INTEGER"
                    /\ n.tok.tokenType = "ADD" => IsAbsOf(r.res.Ires, v)
                    /\ n.tok.tokenType = "SUB" => IsNegationOf(r.res.Ires, v)

\* C8: a binary node's Result is Floating exactly when an operand's is; on two
\* Integer operands it is the Integer of the operator table: + - * exact on
\* small operands, / with a non-zero divisor the quotient truncated toward zero.
C8_PromotionAndIntegerTable ==
    Evaluated =>
        \A n \in subtrees(ast) :
            (IsBinary(n) /\ EvalOk(evaluate(n.left)) /\ EvalOk(evaluate(n.right))) =>
                LET l == evaluate(n.left).res
                    r == evaluate(n.right).res
                    v == evaluate(n)
                    op == n.tok.tokenType
                IN  IF l.ResultType = "FLOATING" \/ r.ResultType = "FLOATING"
                    THEN EvalOk(v) /\ v.res.ResultType = "FLOATING"
                    ELSE IF op = "DIV" /\ r.Ires = 0 THEN TRUE
                    ELSE /\ EvalOk(v)
                         /\ v.res.ResultType = "INTEGER"
                         /\ op = "DIV" => v.res.Ires = TruncQuot(l.Ires, r.Ires)
                         /\ (op # "DIV" /\ Small(l.Ires) /\ Small(r.Ires))
                                => Plain(v.res.Ires) = PlainOp(Plain(l.Ires), op, Plain(r.Ires))

\* an Integer division with a negative, inexact quotient was evaluated: -7 / 2 = -3
C8_Witness ==
    /\ Returned
    /\ IsBinary(ast)
    /\ ast.tok.tokenType = "DIV"
    /\ evaluate(ast.left).res = integerResult(-7, float64(-7))
    /\ evaluate(ast.right).res = integerResult(2, float64(2))
    /\ res.ResultType = "INTEGER"
    /\ res.Ires = -3

(* ------------------------------------------------------------------ *)
(* C9, C10                                                            *)
(* ------------------------------------------------------------------ *)
\* C9: when makeTokens succeeds every byte of the text was consumed: the last
\* token is the only EOF and its index is len(text); when parse succeeds the
\* parser's current token is that EOF (idx = len(tokens) - 1).
C9_InputFullyConsumed ==
    /\ LexSucceeded =>
          /\ tokens[Len(tokens)].tokenType = "EOF"
          /\ tokens[Len(tokens)].pos.index = Len(text)
          /\ \A i \in 1..(Len(tokens) - 1) : tokens[i].tokenType # "EOF"
    /\ ParseSucceeded =>
          /\ idx = Len(tokens) - 1
          /\ currentToken = tokens[Len(tokens)]

\* the byte a token of type tt starts with
StartsToken(tt, c) ==
    IF tt \in {"INT", "FLOAT"} THEN isDigit(c) ELSE operatorType(c) = tt

\* every recorded position is that of the token's first byte, and the
\* positions increase along the sequence
TokenPositions ==
    /\ \A i \in 1..Len(tokens) :
          tokens[i].tokenType # "EOF" =>
              /\ tokens[i].pos.index >= 0
              /\ tokens[i].pos.index < Len(text)
              /\ StartsToken(tokens[i].tokenType, text[tokens[i].pos.index + 1])
              /\ (IsOperand(tokens[i]) /\ tokens[i].pos.index > 0) =>
                     /\ ~isDigit(text[tokens[i].pos.index])
                     /\ text[tokens[i].pos.index] # ChDot
    /\ \A i \in 1..(Len(tokens) - 1) : tokens[i].pos.index < tokens[i + 1].pos.index

\* a step changes no token already in the sequence
TokensKept ==
    \A i \in 1..Len(tokens) : i <= Len(tokens') => tokens'[i] = tokens[i]

\* C10: each non-EOF token's recorded index is the index of its first byte (for
\* a number its first digit), the indices increase strictly along the sequence,
\* and no step of the lexer or after it changes a recorded position.
C10_TokenPositions == []TokenPositions /\ [][TokensKept]_vars

\* "-2147483648" was lexed: the number token sits at index 1, EOF at index 11
C10_Witness ==
    /\ LexSucceeded
    /\ Len(text) = 11
    /\ Len(tokens) = 3
    /\ tokens[1].tokenType = "SUB" /\ tokens[1].pos.index = 0
    /\ tokens[2].tokenType = "INT" /\ tokens[2].pos.index = 1
    /\ tokens[3].tokenType = "EOF" /\ tokens[3].pos.index = 11

====
